---- MODULE Spec2Model ----
(***************************************************************************)
(* A model of cqt-rs: CQTParams::new, the three lookups, calculate_norm,   *)
(* pad_input_signal, compute_cqt_filterbank, Cqt::new and Cqt::process.    *)
(*                                                                         *)
(* Specifications: SpecParams (one call of CQTParams::new), SpecPad (one   *)
(* call of pad_input_signal), SpecNorm (one call of calculate_norm),       *)
(* SpecLookup (calls of the lookups on the lazily initialised tables),     *)
(* Spec (an engine is built, then process calls run on it one at a time),  *)
(* SpecShared (two threads call process on one engine) and SpecFrames (the *)
(* frame loop of process, element by element).                             *)
(*                                                                         *)
(* usize is modelled as an unsigned integer of UsizeBits bits.  An f32 is  *)
(* a record [nan, v]: either NaN or the number v; a cast of an integer to  *)
(* f32 rounds to F32MantissaBits significant bits.  The collaborators      *)
(* whose numbers no claim depends on (the Hann window generator, the       *)
(* forward FFT, powf, exp) are uninterpreted: their results are terms      *)
(* <<"name", arguments>>, equal exactly when the arguments are.            *)
(***************************************************************************)
EXTENDS Integers, Sequences, FiniteSets, TLC

VARIABLES
  pc,          \* position of the driving program
  new_args,    \* arguments of the CQTParams::new call
  new_result,  \* what CQTParams::new returned
  pad_args,    \* arguments of a direct pad_input_signal call
  pad_result,  \* what pad_input_signal returned
  filterbank,  \* compute_cqt_filterbank's local `filterbank`
  fb_todo,     \* bins whose parallel iteration has not run yet
  fb_result,   \* what compute_cqt_filterbank returned
  cqt,         \* the Cqt engine: [cqt_params, filterbank]
  call,        \* the frame of the running Cqt::process call
  pinned,      \* the first completed process call: its arguments and result
  tables,      \* the three lazy_static lookup tables, None until first use
  lookup,      \* a direct call of one of the three lookups: [fn, key, result]
  norm_args,   \* the window of a direct calculate_norm call
  norm_result, \* what calculate_norm returned
  calls,       \* the frames of the process calls running concurrently
  frames       \* the frame loop of one process call, element by element

\* the variables of the direct calls of the calculations
calc_vars == <<lookup, norm_args, norm_result>>

\* the variables of the concurrent runs
conc_vars == <<calls, frames>>

\* the variables of the construction of an engine and of its sequential use
prog_vars ==
  <<new_args, new_result, pad_args, pad_result, filterbank, fb_todo,
    fb_result, cqt, call, pinned>>

vars ==
  <<pc, new_args, new_result, pad_args, pad_result, filterbank, fb_todo,
    fb_result, cqt, call, pinned, tables, calc_vars, conc_vars>>

----------------------------------------------------------------------------
(* Bounds of the model.                                                    *)

UsizeBits == 4
MaxFreq == 5
MaxBinsPerOctave == 3
MaxSampleRate == 2
MaxPadSignal == 3
MaxPadWindow == 4
MaxSample == 2
MaxEngineWindow == 3
MaxEngineBins == 2
MaxSignal == 3
F32MantissaBits == 3
MaxLookupBins == 13
MaxLookupWindow == 10
MaxLookupRate == 2
MaxNormWindow == 4
MaxNormConstant == 10
MaxNormSample == 2
MaxLoopWindowLog == 1
MaxLoopSignal == 3
MaxSharedWindow == 2
MaxSharedBins == 1
MaxSharedSignal == 3

UsizeMax == 2 ^ UsizeBits - 1

None == [tag |-> "None"]
Ok(v) == [tag |-> "Ok", val |-> v]
Err(e) == [tag |-> "Err", err |-> e]
Panic(at) == [tag |-> "Panic", at |-> at]

----------------------------------------------------------------------------
(* f32                                                                     *)

NaN == [nan |-> TRUE, v |-> 0]
Num(x) == [nan |-> FALSE, v |-> x]

\* a <= b on f32: false as soon as one side is NaN
FLe(a, b) == ~a.nan /\ ~b.nan /\ a.v <= b.v

\* a > b on f32: false as soon as one side is NaN
FGt(a, b) == ~a.nan /\ ~b.nan /\ a.v > b.v

\* the least k >= 0 with d * 2^k >= n, which is ceil(log2(n / d)) for n >= d > 0
RECURSIVE CeilLog2From(_, _, _)
CeilLog2From(n, d, k) == IF d * 2 ^ k >= n THEN k ELSE CeilLog2From(n, d, k + 1)

\* (max_freq / min_freq).log2().ceil(): NaN when an operand is NaN
Log2Ceil(max_freq, min_freq) ==
  IF max_freq.nan \/ min_freq.nan
  THEN NaN
  ELSE Num(CeilLog2From(max_freq.v, min_freq.v, 0))

\* The casts to f32 round: an f32 of the model has F32MantissaBits
\* significant bits (the code's f32 has 24).  DroppedBits is the number of
\* low bits of n that do not fit.
RECURSIVE DroppedBits(_, _)
DroppedBits(n, e) ==
  IF n < 2 ^ (F32MantissaBits + e) THEN e ELSE DroppedBits(n, e + 1)

\* n as f32 for an unsigned n: n itself when it fits, else the nearest
\* number of F32MantissaBits significant bits, a tie going to the even one
UsizeAsF32(n) ==
  LET q == 2 ^ DroppedBits(n, 0)
      lo == (n \div q) * q
      rem == n - lo
  IN
  IF 2 * rem < q THEN lo
  ELSE IF 2 * rem > q THEN lo + q
  ELSE IF (n \div q) % 2 = 0 THEN lo ELSE lo + q

\* (n as f32) * x; the rounding of the product is not modelled
FMulUsize(n, x) == IF x.nan THEN NaN ELSE Num(UsizeAsF32(n) * x.v)

\* x as usize: NaN becomes 0 and the value saturates
F32ToUsize(x) ==
  IF x.nan THEN 0
  ELSE IF x.v < 0 THEN 0
  ELSE IF x.v > UsizeMax THEN UsizeMax
  ELSE x.v

----------------------------------------------------------------------------
(* usize::next_power_of_two                                                *)

\* the number of bits of p: the least k with 2^k > p
RECURSIVE BitLen(_, _)
BitLen(p, k) == IF 2 ^ k > p THEN k ELSE BitLen(p, k + 1)

\* usize::MAX >> leading_zeros(n - 1), and 0 for n <= 1
OneLessThanNextPowerOfTwo(n) == IF n <= 1 THEN 0 ELSE 2 ^ BitLen(n - 1, 0) - 1

\* a faulty variant: the largest power of two <= n
NextPowerOfTwoRoundsDown(n, overflow_checks) ==
  IF n <= 1 THEN Ok(1) ELSE Ok(2 ^ (BitLen(n, 0) - 1))

\* one_less_than_next_power_of_two() + 1: the addition overflows when the
\* result does not fit; a build with overflow checks panics there, one
\* without wraps to 0
NextPowerOfTwo(n, overflow_checks) ==
  LET s == OneLessThanNextPowerOfTwo(n) + 1 IN
  IF s > UsizeMax
  THEN IF overflow_checks THEN Panic("next_power_of_two") ELSE Ok(s % 2 ^ UsizeBits)
  ELSE Ok(s)

----------------------------------------------------------------------------
(* The lookups and the collaborators of CQTParams::new                     *)

\* The three tables are lazy_static: each is None until its first use, which
\* runs its initialiser; the definitions in capitals are the initialisers.
NoTables == [q_factor |-> None, base_freq_ratio |-> None, phase_factors |-> None]

\* 2^(1/bins_per_octave)
CalculateBaseFreqRatio(bins_per_octave) == <<"pow2inv", bins_per_octave>>

\* a faulty variant: key bin holds the ratio of bin + 1
BaseFreqRatiosOfNextBin == [bin \in 0 .. 11 |-> CalculateBaseFreqRatio(bin + 1)]

CALCULATED_BASE_FREQ_RATIOS == [bin \in 0 .. 11 |-> CalculateBaseFreqRatio(bin)]

\* the table as a use of it in the current state finds it
BaseFreqRatioTable ==
  IF tables.base_freq_ratio = None
  THEN CALCULATED_BASE_FREQ_RATIOS
  ELSE tables.base_freq_ratio

GetCalculatedBaseFreqRatio(bins_per_octave) ==
  IF bins_per_octave \in DOMAIN BaseFreqRatioTable
  THEN BaseFreqRatioTable[bins_per_octave]
  ELSE CalculateBaseFreqRatio(bins_per_octave)

\* 1 / (2^(1/bins_per_octave) - 1)
CalculateQFactor(bins_per_octave) == <<"q", <<"pow2inv", bins_per_octave>> >>

Q_FACTOR_LOOKUP_TABLE == [b \in 1 .. 12 |-> CalculateQFactor(b)]

QFactorTable ==
  IF tables.q_factor = None THEN Q_FACTOR_LOOKUP_TABLE ELSE tables.q_factor

GetCalculatedQFactor(bins_per_octave) ==
  IF bins_per_octave \in DOMAIN QFactorTable
  THEN Ok(QFactorTable[bins_per_octave])
  ELSE IF bins_per_octave > 0
  THEN Ok(CalculateQFactor(bins_per_octave))
  ELSE Err("InvalidBinsPerOctave")

\* (-2.0 * PI * (n as f32)) / (sample_rate as f32) for n in
\* [0, window_length): entry n is kept as the pair of the two casts, its
\* value being -2 pi times their quotient
CalculatePhaseFactors(window_length, sample_rate) ==
  [i \in 1 .. window_length |->
    <<"phase", UsizeAsF32(i - 1), UsizeAsF32(sample_rate)>>]

\* An array stored in the table is kept as the call that computed it,
\* calculate_phase_factors(window_length, sample_rate), and read back by
\* Stored: the twenty arrays have up to 4096 entries each.
CALCULATED_PHASE_FACTORS ==
  [k \in {256, 512, 1024, 2048, 4096} \X {16000, 22050, 44100, 48000} |->
    <<"calculate_phase_factors", k[1], k[2]>>]

\* the array a table entry holds
Stored(entry) == CalculatePhaseFactors(entry[2], entry[3])

PhaseFactorsTable ==
  IF tables.phase_factors = None
  THEN CALCULATED_PHASE_FACTORS
  ELSE tables.phase_factors

GetCalculatedPhaseFactors(window_length, sample_rate) ==
  IF <<window_length, sample_rate>> \in DOMAIN PhaseFactorsTable
  THEN Stored(PhaseFactorsTable[<<window_length, sample_rate>>])
  ELSE CalculatePhaseFactors(window_length, sample_rate)

\* the tables after a use of the named ones: a table is initialised by its
\* first use and left as it is by every later one
Used(t, names) ==
  [name \in DOMAIN t |->
    IF name \in names /\ t[name] = None
    THEN CASE name = "q_factor" -> Q_FACTOR_LOOKUP_TABLE
           [] name = "base_freq_ratio" -> CALCULATED_BASE_FREQ_RATIOS
           [] name = "phase_factors" -> CALCULATED_PHASE_FACTORS
    ELSE t[name]]

\* hann_rs::get_hann_window: a window of the requested length.  For length 0
\* the crate returns an error or an empty window; CQTParams::new panics in
\* both cases (on this unwrap or on calculate_norm's), so the empty window
\* stands for both.
\* a faulty variant: one entry more than asked for
GetHannWindowWithEndpoint(window_length) ==
  Ok([i \in 1 .. window_length + 1 |-> <<"hann", i - 1, window_length>>])

GetHannWindow(window_length) ==
  Ok([i \in 1 .. window_length |-> <<"hann", i - 1, window_length>>])

\* The numbers of calculate_norm.  A window element is a term: <<"half", k>>
\* is the f32 k / 2, any other term (an element of the Hann window) is
\* uninterpreted.  <<"quarter", s>> is the f32 s / 4 and <<"ratio", n, d>>
\* the f32 n / d in lowest terms; a quotient or root that is no f32 is kept
\* as the exact number, its rounding not being modelled.
RECURSIVE SumOfSquaredHalves(_)
SumOfSquaredHalves(w) ==
  IF Len(w) = 0 THEN 0 ELSE w[1][2] * w[1][2] + SumOfSquaredHalves(Tail(w))

\* hann_rs::get_hann_window_sum_squares: the sum of the squares of the
\* elements, as the f32 nearest to it
GetHannWindowSumSquares(hann_window) ==
  IF \A i \in DOMAIN hann_window : hann_window[i][1] = "half"
  THEN <<"quarter", UsizeAsF32(SumOfSquaredHalves(hann_window))>>
  ELSE <<"sum_squares", hann_window>>

RECURSIVE GCD(_, _)
GCD(a, b) == IF b = 0 THEN a ELSE GCD(b, a % b)

\* x / (n as f32)
FDivUsize(x, n) ==
  IF x[1] = "quarter"
  THEN LET d == 4 * UsizeAsF32(n)
           g == GCD(x[2], d)
       IN <<"ratio", x[2] \div g, d \div g>>
  ELSE <<"div", x, UsizeAsF32(n)>>

\* the integer root of n when n is a square, else -1
IntegerRoot(n) ==
  IF \E r \in 0 .. n : r * r = n THEN CHOOSE r \in 0 .. n : r * r = n ELSE -1

\* x.sqrt(): exact when the root is a ratio
FSqrt(x) ==
  IF x[1] = "ratio" /\ IntegerRoot(x[2]) >= 0 /\ IntegerRoot(x[3]) >= 0
  THEN <<"ratio", IntegerRoot(x[2]), IntegerRoot(x[3])>>
  ELSE <<"sqrt", x>>

\* a faulty variant: the root of the sum, not of the mean
CalculateNormOfSum(hann_window) ==
  IF Len(hann_window) = 0
  THEN Err("InvalidWindowLength")
  ELSE Ok(FSqrt(FDivUsize(GetHannWindowSumSquares(hann_window), 1)))

CalculateNorm(hann_window) ==
  IF Len(hann_window) = 0
  THEN Err("InvalidWindowLength")
  ELSE Ok(FSqrt(FDivUsize(GetHannWindowSumSquares(hann_window),
                         Len(hann_window))))

----------------------------------------------------------------------------
(* CQTParams::new                                                          *)

\* a faulty variant: the checks in the reverse order
CQTParamsValidateWindowLengthFirst(a) ==
  IF a.window_length = 0 THEN Err("InvalidWindowLength")
  ELSE IF a.sample_rate = 0 THEN Err("InvalidSampleRate")
  ELSE IF a.bins_per_octave = 0 THEN Err("InvalidBinsPerOctave")
  ELSE IF FLe(a.max_freq, a.min_freq) THEN Err("InvalidMaxFrequency")
  ELSE IF FLe(a.min_freq, Num(0)) THEN Err("InvalidMinFrequency")
  ELSE None

\* the five checks, in the order of the code; None when all pass
CQTParamsValidate(a) ==
  IF FLe(a.min_freq, Num(0)) THEN Err("InvalidMinFrequency")
  ELSE IF FLe(a.max_freq, a.min_freq) THEN Err("InvalidMaxFrequency")
  ELSE IF a.bins_per_octave = 0 THEN Err("InvalidBinsPerOctave")
  ELSE IF a.sample_rate = 0 THEN Err("InvalidSampleRate")
  ELSE IF a.window_length = 0 THEN Err("InvalidWindowLength")
  ELSE None

\* a faulty variant: floor instead of ceil
NumBinsFloor(bins_per_octave, max_freq, min_freq) ==
  LET octaves == Log2Ceil(max_freq, min_freq) IN
  IF octaves.nan THEN 0
  ELSE IF min_freq.v * 2 ^ octaves.v = max_freq.v
  THEN F32ToUsize(FMulUsize(bins_per_octave, octaves))
  ELSE F32ToUsize(FMulUsize(bins_per_octave, Num(octaves.v - 1)))

\* ((bins_per_octave as f32) * (max_freq / min_freq).log2().ceil()) as usize
NumBins(bins_per_octave, max_freq, min_freq) ==
  F32ToUsize(FMulUsize(bins_per_octave, Log2Ceil(max_freq, min_freq)))

\* the body of CQTParams::new after the checks; every unwrap of an Err panics
CQTParamsDerive(a, overflow_checks) ==
  LET window_length == NextPowerOfTwo(a.window_length, overflow_checks) IN
  IF window_length.tag = "Panic" THEN window_length
  ELSE
    LET num_bins == NumBins(a.bins_per_octave, a.max_freq, a.min_freq)
        base_freq_ratio == GetCalculatedBaseFreqRatio(a.bins_per_octave)
        q_factor == GetCalculatedQFactor(a.bins_per_octave)
        hann_window == GetHannWindow(window_length.val)
    IN
    IF q_factor.tag = "Err" THEN Panic("get_calculated_q_factor.unwrap")
    ELSE IF hann_window.tag = "Err" THEN Panic("get_hann_window.unwrap")
    ELSE
      LET norm_factor == CalculateNorm(hann_window.val) IN
      IF norm_factor.tag = "Err" THEN Panic("calculate_norm.unwrap")
      ELSE
        Ok([min_freq |-> a.min_freq,
            max_freq |-> a.max_freq,
            bins_per_octave |-> a.bins_per_octave,
            sample_rate |-> a.sample_rate,
            window_length |-> window_length.val,
            num_bins |-> num_bins,
            q_factor |-> q_factor.val,
            base_freq_ratio |-> base_freq_ratio,
            hann_window |-> hann_window.val,
            norm_factor |-> norm_factor.val,
            phase_factors |->
              GetCalculatedPhaseFactors(window_length.val, a.sample_rate)])

CQTParamsNew(a, overflow_checks) ==
  LET e == CQTParamsValidate(a) IN
  IF e.tag = "Err" THEN e ELSE CQTParamsDerive(a, overflow_checks)

\* the tables CQTParams::new has used when it returns or panics: none when a
\* check fails or next_power_of_two panics, the Q factor and base-frequency
\* tables after that, the phase-factor table once the norm is computed
TablesUsedByNew(a, overflow_checks) ==
  IF CQTParamsValidate(a).tag = "Err" THEN {}
  ELSE
    LET window_length == NextPowerOfTwo(a.window_length, overflow_checks) IN
    IF window_length.tag = "Panic" THEN {}
    ELSE IF GetCalculatedQFactor(a.bins_per_octave).tag = "Err"
    THEN {"base_freq_ratio", "q_factor"}
    ELSE IF CalculateNorm(GetHannWindow(window_length.val).val).tag = "Err"
    THEN {"base_freq_ratio", "q_factor"}
    ELSE {"base_freq_ratio", "q_factor", "phase_factors"}

\* center_freq(bin) = min_freq * base_freq_ratio.powf(bin)
CenterFreq(p, bin) == <<"center_freq", p.min_freq, p.base_freq_ratio, bin>>

----------------------------------------------------------------------------
(* The inputs                                                              *)

F32Values == {NaN} \cup {Num(x) : x \in -1 .. MaxFreq}

ParamInputs ==
  [min_freq : F32Values,
   max_freq : F32Values,
   bins_per_octave : 0 .. MaxBinsPerOctave,
   sample_rate : 0 .. MaxSampleRate,
   window_length : 0 .. UsizeMax]

Idle ==
  /\ pad_args = None
  /\ pad_result = None
  /\ filterbank = None
  /\ fb_todo = {}
  /\ fb_result = None
  /\ cqt = None
  /\ call = None
  /\ pinned = None
  /\ tables = NoTables
  /\ lookup = None
  /\ norm_args = None
  /\ norm_result = None
  /\ calls = None
  /\ frames = None

----------------------------------------------------------------------------
(* The call of CQTParams::new                                              *)

CallCQTParamsNew ==
  /\ pc = "new"
  /\ \E overflow_checks \in BOOLEAN :
       /\ new_result' = CQTParamsNew(new_args, overflow_checks)
       /\ tables' = Used(tables, TablesUsedByNew(new_args, overflow_checks))
  /\ pc' = "params"
  /\ UNCHANGED <<new_args, pad_args, pad_result, filterbank, fb_todo,
                 fb_result, cqt, call, pinned, calc_vars, conc_vars>>

InitParams ==
  /\ pc = "new"
  /\ new_args \in ParamInputs
  /\ new_result = None
  /\ Idle

SpecParams == InitParams /\ [][CallCQTParamsNew]_vars

----------------------------------------------------------------------------
(* pad_input_signal                                                        *)

\* Array1::<f32>::zeros(n)
Zeros1(n) == [i \in 1 .. n |-> 0]

\* a.slice_mut(s![start..end]).assign(src), indices from 0 as in the code
SliceAssign(a, start, end, src) ==
  [i \in 1 .. Len(a) |-> IF start < i /\ i <= end THEN src[i - start] ELSE a[i]]

\* a faulty variant: the signal at index 0, all the padding on the right
PadInputSignalLeftAligned(signal, window_len, hop_size) ==
  IF hop_size = 0 \/ hop_size > window_len THEN Err("InvalidHopSize")
  ELSE IF Len(signal) = 0 THEN Err("EmptyInputSignal")
  ELSE Ok(SliceAssign(Zeros1(window_len - hop_size + Len(signal)), 0, Len(signal), signal))

\* a faulty variant: only the padding before the signal is allocated
PadInputSignalNoTail(signal, window_len, hop_size) ==
  IF hop_size = 0 \/ hop_size > window_len THEN Err("InvalidHopSize")
  ELSE IF Len(signal) = 0 THEN Err("EmptyInputSignal")
  ELSE
    LET half_signal_padding == (window_len - hop_size) \div 2 IN
    Ok(SliceAssign(Zeros1(half_signal_padding + Len(signal)), half_signal_padding,
                   half_signal_padding + Len(signal), signal))

\* a faulty variant: a hop size equal to the window length is rejected too
PadInputSignalHopBelowWindow(signal, window_len, hop_size) ==
  IF hop_size = 0 \/ hop_size >= window_len THEN Err("InvalidHopSize")
  ELSE IF Len(signal) = 0 THEN Err("EmptyInputSignal")
  ELSE
    LET half_signal_padding == (window_len - hop_size) \div 2 IN
    Ok(SliceAssign(Zeros1(window_len - hop_size + Len(signal)),
                   half_signal_padding, half_signal_padding + Len(signal),
                   signal))

PadInputSignal(signal, window_len, hop_size) ==
  IF hop_size = 0 \/ hop_size > window_len THEN Err("InvalidHopSize")
  ELSE
    LET signal_len == Len(signal) IN
    IF signal_len = 0 THEN Err("EmptyInputSignal")
    ELSE
      LET signal_padding == window_len - hop_size
          half_signal_padding == signal_padding \div 2
          signal_padded == Zeros1(signal_padding + signal_len)
      IN Ok(SliceAssign(signal_padded, half_signal_padding,
                        half_signal_padding + signal_len, signal))

\* the signals of the model: samples 0 .. MaxSample, at most n of them
Signals(n) == UNION {[1 .. k -> 0 .. MaxSample] : k \in 0 .. n}

PadInputs ==
  [signal : Signals(MaxPadSignal),
   window_len : 0 .. MaxPadWindow,
   hop_size : 0 .. MaxPadWindow + 1]

CallPadInputSignal ==
  /\ pc = "pad"
  /\ pad_result' = PadInputSignal(pad_args.signal, pad_args.window_len, pad_args.hop_size)
  /\ pc' = "padded"
  /\ UNCHANGED <<new_args, new_result, pad_args, filterbank, fb_todo,
                 fb_result, cqt, call, pinned,
                 tables, calc_vars, conc_vars>>

InitPad ==
  /\ pc = "pad"
  /\ pad_args \in PadInputs
  /\ pad_result = None
  /\ new_args = None
  /\ new_result = None
  /\ filterbank = None
  /\ fb_todo = {}
  /\ fb_result = None
  /\ cqt = None
  /\ call = None
  /\ pinned = None
  /\ tables = NoTables
  /\ lookup = None
  /\ norm_args = None
  /\ norm_result = None
  /\ calls = None
  /\ frames = None

SpecPad == InitPad /\ [][CallPadInputSignal]_vars

----------------------------------------------------------------------------
(* Complex buffers and matrices                                            *)

\* the f32 0.0 of a zero-initialised complex number
Z == <<"0">>
CZero == [re |-> Z, im |-> Z]

\* A complex buffer: its elements, and how many forward transforms were
\* applied to it in place (the transform is a collaborator: its output is
\* the term "ffts transforms of elems", of the same length).
Buffer(elems) == [ffts |-> 0, elems |-> elems]
BufLen(b) == Len(b.elems)

\* Fft::process(buffer), in place
FftProcess(b) == [b EXCEPT !.ffts = @ + 1]

\* Array2::<Complex<f32>>::zeros((rows, cols)); t marks a transposed view,
\* whose data stay those of the matrix it views
Zeros2(rows, cols) ==
  [rows |-> rows, cols |-> cols, t |-> FALSE,
   data |-> [i \in 1 .. rows |-> Buffer([j \in 1 .. cols |-> CZero])]]

\* m.t()
Transpose(m) == [rows |-> m.cols, cols |-> m.rows, t |-> ~m.t, data |-> m.data]

\* column j (from 1) of a matrix: of a transposed view, row j of the data
Column(m, j) == IF m.t THEN m.data[j] ELSE <<"column", j, m.data>>

\* a.dot(&b): entry (i, j) is the product of row i of a and column j of b;
\* panics when the inner dimensions differ
Dot(a, b) ==
  IF a.cols # b.rows THEN Panic("dot")
  ELSE Ok([rows |-> a.rows, cols |-> b.cols, t |-> FALSE,
           data |-> [i \in 1 .. a.rows |->
                      [j \in 1 .. b.cols |-> <<"dot", a.data[i], Column(b, j)>>]]])

\* m.mapv(|x| x.abs())
MapvAbs(m) ==
  [m EXCEPT !.data = [i \in 1 .. m.rows |-> [j \in 1 .. m.cols |-> <<"abs", m.data[i][j]>>]]]

----------------------------------------------------------------------------
(* create_complex_hann_window and compute_cqt_filterbank                   *)

\* element n is exp(i * phase * center_freq) * q_factor * hann_value * normalization
CreateComplexHannWindow(center_freq, cqt_params) ==
  Buffer([n \in 1 .. cqt_params.window_length |->
    [phase |-> cqt_params.phase_factors[n],
     center_freq |-> center_freq,
     q_factor |-> cqt_params.q_factor,
     hann_value |-> cqt_params.hann_window[n],
     normalization |-> cqt_params.norm_factor]])

\* a faulty variant: the two dimensions exchanged
FilterbankZerosSwapped(cqt_params) ==
  Zeros2(cqt_params.window_length, cqt_params.num_bins)

\* Array2::zeros((cqt_params.num_bins(), cqt_params.window_length))
FilterbankZeros(cqt_params) ==
  Zeros2(cqt_params.num_bins, cqt_params.window_length)

\* the body of the parallel loop for one bin: the transformed window
FilterbankRowValue(cqt_params, bin) ==
  FftProcess(CreateComplexHannWindow(CenterFreq(cqt_params, bin), cqt_params))

\* the filterbank a run of the bins in ascending order builds
FilterbankInOrder(cqt_params) ==
  [FilterbankZeros(cqt_params) EXCEPT
    !.data = [i \in 1 .. cqt_params.num_bins |->
               FilterbankRowValue(cqt_params, i - 1)]]

\* Cqt::new calls compute_cqt_filterbank: the filterbank is allocated
ComputeCqtFilterbankBegin ==
  /\ pc = "params"
  /\ new_result.tag = "Ok"
  /\ filterbank' = FilterbankZeros(new_result.val)
  /\ fb_todo' = 0 .. filterbank'.rows - 1
  /\ pc' = "filterbank"
  /\ UNCHANGED <<new_args, new_result, pad_args, pad_result, fb_result, cqt,
                 call, pinned,
                 tables, calc_vars, conc_vars>>

\* a faulty variant: the iterations share a counter, and each takes the
\* centre frequency of its turn instead of that of its bin
FilterbankRowByTurn(bin) ==
  /\ pc = "filterbank"
  /\ bin \in fb_todo
  /\ LET turn == filterbank.rows - Cardinality(fb_todo)
         complex_hann_window == FilterbankRowValue(new_result.val, turn)
     IN
     /\ filterbank' = [filterbank EXCEPT !.data[bin + 1] = complex_hann_window]
     /\ fb_todo' = fb_todo \ {bin}
     /\ UNCHANGED <<pc, fb_result>>
  /\ UNCHANGED <<new_args, new_result, pad_args, pad_result, cqt, call, pinned,
                 tables, calc_vars, conc_vars>>

\* one iteration of the parallel loop over the rows, in any order;
\* window.assign panics when the lengths differ
FilterbankRow(bin) ==
  /\ pc = "filterbank"
  /\ bin \in fb_todo
  /\ LET complex_hann_window == FilterbankRowValue(new_result.val, bin) IN
     IF BufLen(complex_hann_window) = filterbank.cols
     THEN /\ filterbank' = [filterbank EXCEPT !.data[bin + 1] = complex_hann_window]
          /\ fb_todo' = fb_todo \ {bin}
          /\ UNCHANGED <<pc, fb_result>>
     ELSE /\ fb_result' = Panic("assign")
          /\ pc' = "aborted"
          /\ UNCHANGED <<filterbank, fb_todo>>
  /\ UNCHANGED <<new_args, new_result, pad_args, pad_result, cqt, call, pinned,
                 tables, calc_vars, conc_vars>>

\* Ok(filterbank), once every iteration has run
ComputeCqtFilterbankReturn ==
  /\ pc = "filterbank"
  /\ fb_todo = {}
  /\ fb_result' = Ok(filterbank)
  /\ pc' = "built"
  /\ UNCHANGED <<new_args, new_result, pad_args, pad_result, filterbank,
                 fb_todo, cqt, call, pinned,
                 tables, calc_vars, conc_vars>>

\* Cqt::new: expect on the filterbank result, then the engine
CqtNewReturn ==
  /\ pc = "built"
  /\ IF fb_result.tag = "Ok"
     THEN /\ cqt' = [cqt_params |-> new_result.val, filterbank |-> fb_result.val]
          /\ pc' = "ready"
     ELSE /\ cqt' = Panic("Error computing CQT filterbank")
          /\ pc' = "aborted"
  /\ UNCHANGED <<new_args, new_result, pad_args, pad_result, filterbank,
                 fb_todo, fb_result, call, pinned,
                 tables, calc_vars, conc_vars>>

----------------------------------------------------------------------------
(* Cqt::process                                                            *)

\* a faulty variant: the hop size checked first, as pad_input_signal does
ProcessValidationHopSizeFirst(signal_len, hop_size, window_length) ==
  IF hop_size = 0 \/ hop_size > window_length THEN Err("InvalidHopSize")
  ELSE IF signal_len = 0 THEN Err("EmptyInputSignal")
  ELSE None

\* the two checks at the start of process; None when both pass
ProcessValidation(signal_len, hop_size, window_length) ==
  IF signal_len = 0 THEN Err("EmptyInputSignal")
  ELSE IF hop_size = 0 \/ hop_size > window_length THEN Err("InvalidHopSize")
  ELSE None

\* a faulty variant: a frame for the trailing samples too
NumFramesRoundedUp(signal_len, hop_size) == (signal_len + hop_size - 1) \div hop_size

\* signal_len / hop_size
NumFrames(signal_len, hop_size) == signal_len \div hop_size

\* the body of the parallel loop for one frame: the frame of the padded
\* signal times the Hann window in the real parts of the row, transformed;
\* slicing panics when the frame ends after the padded signal
FrameRow(row, signal_padded, hann_window, frame_idx, hop_size, window_len) ==
  LET start == frame_idx * hop_size
      end == start + window_len
  IN
  IF end > Len(signal_padded) THEN Panic("slice")
  ELSE Ok(FftProcess(
         [row EXCEPT !.elems =
           [n \in 1 .. window_len |->
             [row.elems[n] EXCEPT !.re = <<"mul", signal_padded[start + n], hann_window[n]>>]]]))

\* the frame of a process call on entry
NewCall(signal, hop_size) ==
  [pc |-> "validate", signal |-> signal, hop_size |-> hop_size,
   num_frames |-> 0, signal_padded |-> None, cqt_output |-> None,
   todo |-> {}, cqt_filtered |-> None, result |-> None]

\* The stages of process as functions of the frame c of the call and of the
\* engine it is called on (&self).

\* the checks, then num_frames
AfterValidate(c, engine) ==
  LET e == ProcessValidation(Len(c.signal), c.hop_size,
                             engine.cqt_params.window_length)
  IN
  IF e.tag = "Err"
  THEN [c EXCEPT !.result = e, !.pc = "return"]
  ELSE [c EXCEPT !.num_frames = NumFrames(Len(c.signal), c.hop_size),
                 !.pc = "pad"]

\* pad_input_signal(...).expect(...), then the zero matrix of the frames
AfterPad(c, engine) ==
  LET window_len == engine.cqt_params.window_length
      padded == PadInputSignal(c.signal, window_len, c.hop_size)
  IN
  IF padded.tag = "Ok"
  THEN [c EXCEPT !.signal_padded = padded.val,
                 !.cqt_output = Zeros2(c.num_frames, window_len),
                 !.todo = 0 .. c.num_frames - 1,
                 !.pc = "frames"]
  ELSE [c EXCEPT !.result = Panic("Error padding input signal"),
                 !.pc = "return"]

\* one iteration of the parallel loop over the frames
AfterFrame(c, engine, frame_idx) ==
  LET row == FrameRow(c.cqt_output.data[frame_idx + 1], c.signal_padded,
                      engine.cqt_params.hann_window, frame_idx, c.hop_size,
                      engine.cqt_params.window_length)
  IN
  IF row.tag = "Ok"
  THEN [c EXCEPT !.cqt_output.data[frame_idx + 1] = row.val,
                 !.todo = @ \ {frame_idx}]
  ELSE [c EXCEPT !.result = row, !.pc = "return"]

\* cqt_output.dot(&transposed_filterbank)
AfterProject(c, engine) ==
  LET transposed_filterbank == Transpose(engine.filterbank)
      cqt_filtered == Dot(c.cqt_output, transposed_filterbank)
  IN
  IF cqt_filtered.tag = "Ok"
  THEN [c EXCEPT !.cqt_filtered = cqt_filtered.val, !.pc = "magnitude"]
  ELSE [c EXCEPT !.result = cqt_filtered, !.pc = "return"]

\* the element-wise absolute value, and Ok of it
AfterMagnitude(c) ==
  [c EXCEPT !.result = Ok(MapvAbs(c.cqt_filtered)), !.pc = "return"]

\* process(&self, signal, hop_size) is called on the engine
ProcessCall(signal, hop_size) ==
  /\ pc = "ready"
  /\ call = None
  /\ call' = NewCall(signal, hop_size)
  /\ UNCHANGED <<pc, new_args, new_result, pad_args, pad_result, filterbank,
                 fb_todo, fb_result, cqt, pinned,
                 tables, calc_vars, conc_vars>>

\* the checks, then num_frames
ProcessValidate ==
  /\ call # None
  /\ call.pc = "validate"
  /\ call' = AfterValidate(call, cqt)
  /\ UNCHANGED <<pc, new_args, new_result, pad_args, pad_result, filterbank,
                 fb_todo, fb_result, cqt, pinned,
                 tables, calc_vars, conc_vars>>

\* pad_input_signal(...).expect(...), then the zero matrix of the frames
ProcessPad ==
  /\ call # None
  /\ call.pc = "pad"
  /\ call' = AfterPad(call, cqt)
  /\ UNCHANGED <<pc, new_args, new_result, pad_args, pad_result, filterbank,
                 fb_todo, fb_result, cqt, pinned,
                 tables, calc_vars, conc_vars>>

\* one iteration of the parallel loop over the frames, in any order
ProcessFrame(frame_idx) ==
  /\ call # None
  /\ call.pc = "frames"
  /\ frame_idx \in call.todo
  /\ call' = AfterFrame(call, cqt, frame_idx)
  /\ UNCHANGED <<pc, new_args, new_result, pad_args, pad_result, filterbank,
                 fb_todo, fb_result, cqt, pinned,
                 tables, calc_vars, conc_vars>>

\* a faulty variant: the transposed filterbank is stored back in the engine
ProcessProjectKeepsTransposed ==
  /\ call # None
  /\ call.pc = "frames"
  /\ call.todo = {}
  /\ call' = AfterProject(call, cqt)
  /\ cqt' = [cqt EXCEPT !.filterbank = Transpose(cqt.filterbank)]
  /\ UNCHANGED <<pc, new_args, new_result, pad_args, pad_result, filterbank,
                 fb_todo, fb_result, pinned,
                 tables, calc_vars, conc_vars>>

\* a faulty variant: the projection does not wait for the frame loop
ProcessProjectEarly ==
  /\ call # None
  /\ call.pc = "frames"
  /\ call' = AfterProject(call, cqt)
  /\ UNCHANGED <<pc, new_args, new_result, pad_args, pad_result, filterbank,
                 fb_todo, fb_result, cqt, pinned,
                 tables, calc_vars, conc_vars>>

\* cqt_output.dot(&transposed_filterbank), once every frame is transformed
ProcessProject ==
  /\ call # None
  /\ call.pc = "frames"
  /\ call.todo = {}
  /\ call' = AfterProject(call, cqt)
  /\ UNCHANGED <<pc, new_args, new_result, pad_args, pad_result, filterbank,
                 fb_todo, fb_result, cqt, pinned,
                 tables, calc_vars, conc_vars>>

\* the element-wise absolute value, and Ok of it
ProcessMagnitude ==
  /\ call # None
  /\ call.pc = "magnitude"
  /\ call' = AfterMagnitude(call)
  /\ UNCHANGED <<pc, new_args, new_result, pad_args, pad_result, filterbank,
                 fb_todo, fb_result, cqt, pinned,
                 tables, calc_vars, conc_vars>>

\* the call returns; the first call to return is remembered, with the kinds
\* of result (Ok, Err) of the calls that returned after it
ProcessReturn ==
  /\ call # None
  /\ call.pc = "return"
  /\ pinned' = IF pinned = None
               THEN [signal |-> call.signal, hop_size |-> call.hop_size,
                     result |-> call.result, later |-> {}]
               ELSE [pinned EXCEPT !.later = @ \cup {call.result.tag}]
  /\ call' = None
  /\ UNCHANGED <<pc, new_args, new_result, pad_args, pad_result, filterbank,
                 fb_todo, fb_result, cqt,
                 tables, calc_vars, conc_vars>>

----------------------------------------------------------------------------
(* The engine: CQTParams::new, Cqt::new, then process calls                *)

EngineInputs ==
  [min_freq : {Num(1)},
   max_freq : {NaN, Num(2), Num(3)},
   bins_per_octave : 1 .. MaxEngineBins,
   sample_rate : {1},
   window_length : 1 .. MaxEngineWindow]

\* one signal of each length: the samples 1, 2, 3, ...
EngineSignals == {[i \in 1 .. k |-> i] : k \in 0 .. MaxSignal}

\* the hop sizes tried on an engine: 0, every valid one, and one too large
HopSizes == IF pc = "ready" THEN 0 .. cqt.cqt_params.window_length + 1 ELSE {}

\* the frames of the running call whose iteration has not run yet
FrameIndices == IF call # None THEN call.todo ELSE {}

Init ==
  /\ pc = "new"
  /\ new_args \in EngineInputs
  /\ new_result = None
  /\ Idle

Next ==
  \/ CallCQTParamsNew
  \/ ComputeCqtFilterbankBegin
  \/ \E bin \in fb_todo : FilterbankRow(bin)
  \/ ComputeCqtFilterbankReturn
  \/ CqtNewReturn
  \/ \E signal \in EngineSignals :
       \E hop_size \in HopSizes :
         ProcessCall(signal, hop_size)
  \/ ProcessValidate
  \/ ProcessPad
  \/ \E frame_idx \in FrameIndices : ProcessFrame(frame_idx)
  \/ ProcessProject
  \/ ProcessMagnitude
  \/ ProcessReturn

Spec == Init /\ [][Next]_vars

----------------------------------------------------------------------------
(* Concurrent process calls on one engine: each thread makes one call, and *)
(* the stages of the calls of different threads interleave in any order.   *)

\* two threads that share the engine
Threads == {"a", "b"}

SharedEngineInputs ==
  [min_freq : {Num(1)},
   max_freq : {Num(2)},
   bins_per_octave : 1 .. MaxSharedBins,
   sample_rate : {1},
   window_length : 1 .. MaxSharedWindow]

SharedSignals == {[i \in 1 .. k |-> i] : k \in 0 .. MaxSharedSignal}

\* Cqt::new(CQTParams::new(a).unwrap()), the filterbank built in any order
EngineOf(a) ==
  LET cqt_params == CQTParamsNew(a, TRUE).val IN
  [cqt_params |-> cqt_params, filterbank |-> FilterbankInOrder(cqt_params)]

\* thread t calls process(&self, signal, hop_size)
ThreadCall(t, signal, hop_size) ==
  /\ pc = "shared"
  /\ calls[t] = None
  /\ calls' = [calls EXCEPT ![t] = NewCall(signal, hop_size)]
  /\ UNCHANGED <<pc, prog_vars, tables, calc_vars, frames>>

ThreadValidate(t) ==
  /\ calls[t] # None
  /\ calls[t].pc = "validate"
  /\ calls' = [calls EXCEPT ![t] = AfterValidate(@, cqt)]
  /\ UNCHANGED <<pc, prog_vars, tables, calc_vars, frames>>

ThreadPad(t) ==
  /\ calls[t] # None
  /\ calls[t].pc = "pad"
  /\ calls' = [calls EXCEPT ![t] = AfterPad(@, cqt)]
  /\ UNCHANGED <<pc, prog_vars, tables, calc_vars, frames>>

ThreadFrame(t, frame_idx) ==
  /\ calls[t] # None
  /\ calls[t].pc = "frames"
  /\ frame_idx \in calls[t].todo
  /\ calls' = [calls EXCEPT ![t] = AfterFrame(@, cqt, frame_idx)]
  /\ UNCHANGED <<pc, prog_vars, tables, calc_vars, frames>>

\* a faulty variant: the transposed filterbank is stored back in the engine
ThreadProjectKeepsTransposed(t) ==
  /\ calls[t] # None
  /\ calls[t].pc = "frames"
  /\ calls[t].todo = {}
  /\ calls' = [calls EXCEPT ![t] = AfterProject(@, cqt)]
  /\ cqt' = [cqt EXCEPT !.filterbank = Transpose(cqt.filterbank)]
  /\ UNCHANGED <<pc, new_args, new_result, pad_args, pad_result, filterbank,
                 fb_todo, fb_result, call, pinned, tables, calc_vars, frames>>

ThreadProject(t) ==
  /\ calls[t] # None
  /\ calls[t].pc = "frames"
  /\ calls[t].todo = {}
  /\ calls' = [calls EXCEPT ![t] = AfterProject(@, cqt)]
  /\ UNCHANGED <<pc, prog_vars, tables, calc_vars, frames>>

ThreadMagnitude(t) ==
  /\ calls[t] # None
  /\ calls[t].pc = "magnitude"
  /\ calls' = [calls EXCEPT ![t] = AfterMagnitude(@)]
  /\ UNCHANGED <<pc, prog_vars, tables, calc_vars, frames>>

\* an engine has been built and no thread has called it yet
InitShared ==
  /\ pc = "shared"
  /\ tables = Used(NoTables, {"q_factor", "base_freq_ratio", "phase_factors"})
  /\ new_args \in SharedEngineInputs
  /\ new_result = CQTParamsNew(new_args, TRUE)
  /\ pad_args = None
  /\ pad_result = None
  /\ filterbank = FilterbankInOrder(new_result.val)
  /\ fb_todo = {}
  /\ fb_result = Ok(filterbank)
  /\ cqt = EngineOf(new_args)
  /\ call = None
  /\ pinned = None
  /\ lookup = None
  /\ norm_args = None
  /\ norm_result = None
  /\ calls = [t \in Threads |-> None]
  /\ frames = None

\* the hop sizes tried: 0, every valid one, and one too large
SharedHopSizes == 0 .. cqt.cqt_params.window_length + 1

\* the frames of the call of thread t whose iteration has not run yet
ThreadFrameIndices(t) == IF calls[t] # None THEN calls[t].todo ELSE {}

NextShared ==
  \/ \E t \in Threads :
       \E signal \in SharedSignals :
         \E hop_size \in SharedHopSizes :
           ThreadCall(t, signal, hop_size)
  \/ \E t \in Threads : ThreadValidate(t)
  \/ \E t \in Threads : ThreadPad(t)
  \/ \E t \in Threads :
       \E frame_idx \in ThreadFrameIndices(t) : ThreadFrame(t, frame_idx)
  \/ \E t \in Threads : ThreadProject(t)
  \/ \E t \in Threads : ThreadMagnitude(t)

SpecShared == InitShared /\ [][NextShared]_vars

----------------------------------------------------------------------------
(* The frame loop of Cqt::process, element by element: the iterations of   *)
(* the parallel loop over the rows and, inside each, of the parallel       *)
(* element-wise loop run in any order; a row is transformed once its       *)
(* element-wise loop has finished.                                         *)

\* the state of a process call when it enters the frame loop
FrameLoopOf(signal, hop_size, window_len) ==
  [signal_padded |-> PadInputSignal(signal, window_len, hop_size).val,
   hann_window |-> GetHannWindow(window_len).val,
   hop_size |-> hop_size,
   window_len |-> window_len,
   num_frames |-> NumFrames(Len(signal), hop_size),
   cqt_output |-> Zeros2(NumFrames(Len(signal), hop_size), window_len),
   elem_todo |-> (0 .. NumFrames(Len(signal), hop_size) - 1) \X (1 .. window_len),
   fft_todo |-> 0 .. NumFrames(Len(signal), hop_size) - 1,
   writes |-> [slot \in (0 .. NumFrames(Len(signal), hop_size) - 1)
                          \X (1 .. window_len) |-> 0]]

\* the loops on entry: an engine window (a power of two), a non-empty
\* signal and a valid hop size
FrameLoops ==
  UNION {{FrameLoopOf([i \in 1 .. k |-> i], hop_size, 2 ^ e) :
            k \in 1 .. MaxLoopSignal, hop_size \in 1 .. 2 ^ e} :
         e \in 0 .. MaxLoopWindowLog}

\* a faulty variant: every iteration writes into the first row
FrameElementIntoFirstRow(frame_idx, n) ==
  /\ pc = "frames"
  /\ <<frame_idx, n>> \in frames.elem_todo
  /\ LET start == frame_idx * frames.hop_size IN
     frames' = [frames EXCEPT
       !.cqt_output.data[1].elems[n].re =
         <<"mul", frames.signal_padded[start + n], frames.hann_window[n]>>,
       !.elem_todo = @ \ {<<frame_idx, n>>},
       !.writes[<<0, n>>] = @ + 1]
  /\ UNCHANGED <<pc, prog_vars, tables, calc_vars, calls>>

\* one iteration of the element-wise loop of frame frame_idx:
\* row_elem.re = frame_elem * window_elem for element n (from 1)
FrameElement(frame_idx, n) ==
  /\ pc = "frames"
  /\ <<frame_idx, n>> \in frames.elem_todo
  /\ LET start == frame_idx * frames.hop_size IN
     frames' = [frames EXCEPT
       !.cqt_output.data[frame_idx + 1].elems[n].re =
         <<"mul", frames.signal_padded[start + n], frames.hann_window[n]>>,
       !.elem_todo = @ \ {<<frame_idx, n>>},
       !.writes[<<frame_idx, n>>] = @ + 1]
  /\ UNCHANGED <<pc, prog_vars, tables, calc_vars, calls>>

\* fft.process on the row of frame frame_idx, after its element-wise loop
FrameTransform(frame_idx) ==
  /\ pc = "frames"
  /\ frame_idx \in frames.fft_todo
  /\ \A n \in 1 .. frames.window_len : <<frame_idx, n>> \notin frames.elem_todo
  /\ frames' = [frames EXCEPT
       !.cqt_output.data[frame_idx + 1] = FftProcess(@),
       !.fft_todo = @ \ {frame_idx}]
  /\ UNCHANGED <<pc, prog_vars, tables, calc_vars, calls>>

\* the parallel loop is joined once every iteration has finished
FrameLoopJoin ==
  /\ pc = "frames"
  /\ frames.fft_todo = {}
  /\ pc' = "joined"
  /\ UNCHANGED <<prog_vars, tables, calc_vars, conc_vars>>

InitFrames ==
  /\ pc = "frames"
  /\ new_args = None
  /\ new_result = None
  /\ pad_args = None
  /\ pad_result = None
  /\ filterbank = None
  /\ fb_todo = {}
  /\ fb_result = None
  /\ cqt = None
  /\ call = None
  /\ pinned = None
  /\ tables = NoTables
  /\ lookup = None
  /\ norm_args = None
  /\ norm_result = None
  /\ calls = None
  /\ frames \in FrameLoops

\* the slots of the loop on entry
LoopSlots == IF pc = "frames" THEN frames.elem_todo ELSE {}
LoopRows == IF pc = "frames" THEN frames.fft_todo ELSE {}

NextFrames ==
  \/ \E slot \in LoopSlots : FrameElement(slot[1], slot[2])
  \/ \E frame_idx \in LoopRows : FrameTransform(frame_idx)
  \/ FrameLoopJoin

SpecFrames == InitFrames /\ [][NextFrames]_vars

----------------------------------------------------------------------------
(* Direct calls of the three lookups, any number of them in any order      *)

LookupBins == 0 .. MaxLookupBins

\* window lengths and sample rates: the small ones, the shortest window of
\* the table and every sample rate of the table
LookupWindows == (0 .. MaxLookupWindow) \cup {256}
LookupRates == (0 .. MaxLookupRate) \cup {16000, 22050, 44100, 48000}

CallGetCalculatedQFactor(bins_per_octave) ==
  /\ pc = "lookup"
  /\ lookup' = [fn |-> "q_factor", key |-> bins_per_octave,
                hit |-> bins_per_octave \in DOMAIN QFactorTable,
                result |-> GetCalculatedQFactor(bins_per_octave)]
  /\ tables' = Used(tables, {"q_factor"})
  /\ UNCHANGED <<pc, prog_vars, norm_args, norm_result, conc_vars>>

\* a faulty variant: a miss stores what it computed in the table
CallGetCalculatedBaseFreqRatioCaching(bins_per_octave) ==
  /\ pc = "lookup"
  /\ lookup' = [fn |-> "base_freq_ratio", key |-> bins_per_octave,
                hit |-> bins_per_octave \in DOMAIN BaseFreqRatioTable,
                result |-> GetCalculatedBaseFreqRatio(bins_per_octave)]
  /\ tables' = [Used(tables, {"base_freq_ratio"}) EXCEPT
                  !.base_freq_ratio = (bins_per_octave :> lookup'.result) @@ @]
  /\ UNCHANGED <<pc, prog_vars, norm_args, norm_result, conc_vars>>

CallGetCalculatedBaseFreqRatio(bins_per_octave) ==
  /\ pc = "lookup"
  /\ lookup' = [fn |-> "base_freq_ratio", key |-> bins_per_octave,
                hit |-> bins_per_octave \in DOMAIN BaseFreqRatioTable,
                result |-> GetCalculatedBaseFreqRatio(bins_per_octave)]
  /\ tables' = Used(tables, {"base_freq_ratio"})
  /\ UNCHANGED <<pc, prog_vars, norm_args, norm_result, conc_vars>>

CallGetCalculatedPhaseFactors(window_length, sample_rate) ==
  /\ pc = "lookup"
  /\ lookup' = [fn |-> "phase_factors", key |-> <<window_length, sample_rate>>,
                hit |-> <<window_length, sample_rate>> \in DOMAIN PhaseFactorsTable,
                result |-> GetCalculatedPhaseFactors(window_length, sample_rate)]
  /\ tables' = Used(tables, {"phase_factors"})
  /\ UNCHANGED <<pc, prog_vars, norm_args, norm_result, conc_vars>>

InitLookup ==
  /\ pc = "lookup"
  /\ new_args = None
  /\ new_result = None
  /\ Idle

NextLookup ==
  \/ \E bins_per_octave \in LookupBins :
       CallGetCalculatedQFactor(bins_per_octave)
  \/ \E bins_per_octave \in LookupBins :
       CallGetCalculatedBaseFreqRatio(bins_per_octave)
  \/ \E window_length \in LookupWindows :
       \E sample_rate \in LookupRates :
         CallGetCalculatedPhaseFactors(window_length, sample_rate)

SpecLookup == InitLookup /\ [][NextLookup]_vars

----------------------------------------------------------------------------
(* A direct call of calculate_norm                                         *)

\* the elements 0, 0.5, 1, ...
NormSamples == {<<"half", k>> : k \in 0 .. MaxNormSample}

\* every short window, and the constant windows up to a length whose cast
\* to f32 rounds
NormWindows ==
  UNION {[1 .. n -> NormSamples] : n \in 0 .. MaxNormWindow}
    \cup {[i \in 1 .. n |-> x] : n \in 0 .. MaxNormConstant, x \in NormSamples}

CallCalculateNorm ==
  /\ pc = "norm"
  /\ norm_result' = CalculateNorm(norm_args)
  /\ pc' = "normed"
  /\ UNCHANGED <<prog_vars, tables, lookup, norm_args, conc_vars>>

InitNorm ==
  /\ pc = "norm"
  /\ new_args = None
  /\ new_result = None
  /\ pad_args = None
  /\ pad_result = None
  /\ filterbank = None
  /\ fb_todo = {}
  /\ fb_result = None
  /\ cqt = None
  /\ call = None
  /\ pinned = None
  /\ tables = NoTables
  /\ lookup = None
  /\ norm_args \in NormWindows
  /\ norm_result = None
  /\ calls = None
  /\ frames = None

SpecNorm == InitNorm /\ [][CallCalculateNorm]_vars

----------------------------------------------------------------------------
(* Claims about CQTParams::new, checked under SpecParams                   *)

Returned == pc = "params"

\* the five checks of the validation order, as conditions on the arguments
FailingChecks(a) ==
  <<FLe(a.min_freq, Num(0)),
    FLe(a.max_freq, a.min_freq),
    a.bins_per_octave = 0,
    a.sample_rate = 0,
    a.window_length = 0>>

CheckErrors ==
  <<"InvalidMinFrequency", "InvalidMaxFrequency", "InvalidBinsPerOctave",
    "InvalidSampleRate", "InvalidWindowLength">>

\* C1: the error CQTParams::new returns is the error of the earliest failing
\* check in the order min_freq, max_freq, bins_per_octave, sample_rate,
\* window_length, also when several checks fail at once.
C1_FirstFailingCheckWins ==
  Returned =>
    \A i \in 1 .. 5 :
      (FailingChecks(new_args)[i] /\ \A j \in 1 .. i - 1 : ~FailingChecks(new_args)[j])
        => new_result = Err(CheckErrors[i])

\* a call in which a later check fails together with an earlier one
C1_Witness ==
  /\ Returned
  /\ FailingChecks(new_args)[2]
  /\ FailingChecks(new_args)[4]
  /\ FailingChecks(new_args)[5]
  /\ ~FailingChecks(new_args)[1]
  /\ new_result = Err("InvalidMaxFrequency")

\* the five conditions the claim calls a valid input
ValidInput(a) ==
  /\ FGt(a.min_freq, Num(0))
  /\ FGt(a.max_freq, a.min_freq)
  /\ a.bins_per_octave >= 1
  /\ a.sample_rate >= 1
  /\ a.window_length >= 1

\* the conditions of ValidInput that the arguments violate
Violated(a) ==
  {i \in 1 .. 5 :
    ~ <<FGt(a.min_freq, Num(0)), FGt(a.max_freq, a.min_freq),
        a.bins_per_octave >= 1, a.sample_rate >= 1, a.window_length >= 1>>[i]}

\* C2: CQTParams::new returns Ok exactly for the inputs with min_freq > 0,
\* max_freq > min_freq, bins_per_octave >= 1, sample_rate >= 1 and
\* window_length >= 1 (so no internal step fails or aborts for them), and an
\* input that violates exactly one condition gets that condition's error.
C2_OkIffValid ==
  Returned =>
    /\ (new_result.tag = "Ok") <=> ValidInput(new_args)
    /\ \A i \in 1 .. 5 :
         Violated(new_args) = {i} => new_result = Err(CheckErrors[i])

IsPowerOfTwo(n) == \E k \in 0 .. UsizeBits : n = 2 ^ k

\* C3: the window_length stored by an accepted call is the smallest power of
\* two that is >= the requested one, and the requested one itself when that
\* is a power of two.
C3_WindowLengthNextPowerOfTwo ==
  (Returned /\ new_result.tag = "Ok") =>
    LET stored == new_result.val.window_length
        requested == new_args.window_length
    IN
    /\ IsPowerOfTwo(stored)
    /\ stored >= requested
    /\ \A q \in requested .. UsizeMax : IsPowerOfTwo(q) => stored <= q
    /\ IsPowerOfTwo(requested) => stored = requested

\* an accepted call whose requested length is not a power of two
C3_Witness ==
  /\ Returned
  /\ new_result.tag = "Ok"
  /\ ~IsPowerOfTwo(new_args.window_length)
  /\ new_result.val.window_length > new_args.window_length

\* ceil(b * log2(n / d)) for n > d > 0: the k with
\* 2^(k-1) * d^b < n^b <= 2^k * d^b
CeilOfProduct(b, n, d) ==
  CHOOSE k \in 0 .. b * n :
    /\ n ^ b <= 2 ^ k * d ^ b
    /\ k > 0 => 2 ^ (k - 1) * d ^ b < n ^ b

\* ceil(log2(n / d)) for n > d > 0: the k with 2^(k-1) * d < n <= 2^k * d
CeilOfOctaves(n, d) ==
  CHOOSE k \in 0 .. n : n <= 2 ^ k * d /\ (k > 0 => 2 ^ (k - 1) * d < n)

C5_NumBinsAtLeastOne ==
  (Returned /\ new_result.tag = "Ok") => new_result.val.num_bins >= 1

----------------------------------------------------------------------------
(* Claims about pad_input_signal, checked under SpecPad                    *)

\* C8: for a non-empty signal and 1 <= hop_size <= window_len the padded
\* signal has length signal_length + (window_len - hop_size), holds the
\* samples in order from index floor((window_len - hop_size) / 2) on and 0
\* everywhere else, and the right padding is the left one or one longer.
C8_PaddedSignalLayout ==
  LET signal == pad_args.signal
      total == pad_args.window_len - pad_args.hop_size
      left == total \div 2
  IN
  (/\ pc = "padded"
   /\ Len(signal) >= 1
   /\ 1 <= pad_args.hop_size
   /\ pad_args.hop_size <= pad_args.window_len) =>
    /\ pad_result.tag = "Ok"
    /\ Len(pad_result.val) = Len(signal) + total
    /\ \A i \in 0 .. Len(pad_result.val) - 1 :
         pad_result.val[i + 1] =
           IF left <= i /\ i < left + Len(signal) THEN signal[i - left + 1] ELSE 0
    /\ Len(pad_result.val) - (left + Len(signal)) \in {left, left + 1}

\* a padded signal with samples that are not 0 and an odd total padding
C8_Witness ==
  /\ pc = "padded"
  /\ pad_result.tag = "Ok"
  /\ Len(pad_args.signal) >= 2
  /\ \A i \in 1 .. Len(pad_args.signal) : pad_args.signal[i] # 0
  /\ (pad_args.window_len - pad_args.hop_size) % 2 = 1
  /\ pad_args.window_len - pad_args.hop_size >= 3

----------------------------------------------------------------------------
(* Claims about Cqt::new and Cqt::process, checked under Spec              *)

AtReturn == call # None /\ call.pc = "return"

\* C6: process returns EmptyInputSignal for an empty signal (whatever the
\* hop size), InvalidHopSize for a non-empty signal with hop_size = 0 or
\* hop_size > window_length, accepts every hop_size in 1 ..= window_length,
\* and has done no padding, transform or projection when it returns an error.
C6_ProcessValidatesFirst ==
  AtReturn =>
    LET signal_len == Len(call.signal)
        bad_hop == call.hop_size = 0 \/ call.hop_size > cqt.cqt_params.window_length
    IN
    /\ signal_len = 0 => call.result = Err("EmptyInputSignal")
    /\ (signal_len > 0 /\ bad_hop) => call.result = Err("InvalidHopSize")
    /\ (signal_len > 0 /\ ~bad_hop) => call.result.tag = "Ok"
    /\ call.result.tag = "Err" =>
         /\ call.signal_padded = None
         /\ call.cqt_output = None
         /\ call.cqt_filtered = None

\* an empty signal with an invalid hop size returns, after a call with
\* hop_size = window_length was accepted
C6_Witness ==
  /\ AtReturn
  /\ Len(call.signal) = 0
  /\ call.hop_size > cqt.cqt_params.window_length
  /\ call.result = Err("EmptyInputSignal")
  /\ pinned # None
  /\ pinned.hop_size = cqt.cqt_params.window_length
  /\ pinned.result.tag = "Ok"

\* m is a well-formed matrix of the given shape
HasShape(m, rows, cols) ==
  /\ m.rows = rows
  /\ m.cols = cols
  /\ Len(m.data) = rows
  /\ \A i \in 1 .. rows : Len(m.data[i]) = cols

\* C7: for a non-empty signal and 1 <= hop_size <= window_length, process
\* returns Ok with a matrix of floor(signal_length / hop_size) rows and
\* num_bins columns (no row for the trailing samples, no row at all for a
\* signal shorter than hop_size).
C7_FeatureMatrixShape ==
  (/\ AtReturn
   /\ Len(call.signal) >= 1
   /\ 1 <= call.hop_size
   /\ call.hop_size <= cqt.cqt_params.window_length) =>
    /\ call.result.tag = "Ok"
    /\ call.result.val.rows * call.hop_size <= Len(call.signal)
    /\ Len(call.signal) < (call.result.val.rows + 1) * call.hop_size
    /\ HasShape(call.result.val, call.result.val.rows, cqt.cqt_params.num_bins)

\* a call with trailing samples returns its frames, after a call with a
\* signal shorter than the hop size returned Ok with no row
C7_Witness ==
  /\ AtReturn
  /\ call.result.tag = "Ok"
  /\ call.result.val.rows >= 1
  /\ call.result.val.cols >= 2
  /\ Len(call.signal) % call.hop_size # 0
  /\ pinned # None
  /\ pinned.result.tag = "Ok"
  /\ Len(pinned.signal) < pinned.hop_size
  /\ pinned.result.val.rows = 0

C10_ProcessRepeatable ==
  (/\ AtReturn
   /\ pinned # None
   /\ pinned.signal = call.signal
   /\ pinned.hop_size = call.hop_size) =>
    call.result = pinned.result

\* a successful call is repeated after a successful and a failing call
C10_Witness ==
  /\ AtReturn
  /\ pinned # None
  /\ pinned.signal = call.signal
  /\ pinned.hop_size = call.hop_size
  /\ pinned.later = {"Ok", "Err"}
  /\ call.result.tag = "Ok"
  /\ call.result.val.rows >= 2
  /\ call.result.val.cols >= 1

----------------------------------------------------------------------------
(* Claims about the three lookups, checked under SpecLookup                *)

\* C12: each of the three lookups returns, for every valid key, the value
\* the direct formula gives for that key, whether the key is in the table
\* (a hit) or not (a miss); bins_per_octave = 0 is no valid key of the Q
\* factor lookup.
C12_LookupEqualsFormula ==
  lookup # None =>
    /\ (lookup.fn = "q_factor" /\ lookup.key >= 1) =>
         lookup.result = Ok(CalculateQFactor(lookup.key))
    /\ lookup.fn = "base_freq_ratio" =>
         lookup.result = CalculateBaseFreqRatio(lookup.key)
    /\ lookup.fn = "phase_factors" =>
         lookup.result = CalculatePhaseFactors(lookup.key[1], lookup.key[2])

\* a hit in the phase-factor table, the three tables being initialised
C12_Witness ==
  /\ lookup # None
  /\ lookup.fn = "phase_factors"
  /\ lookup.hit
  /\ Len(lookup.result) = 256
  /\ tables.q_factor # None
  /\ tables.base_freq_ratio # None
  /\ tables.phase_factors # None

\* the phase factor a is below the phase factor b: both are -2 pi times a
\* quotient of two casts, the divisors being positive
PhaseLess(a, b) == a[2] * b[3] > b[2] * a[3]

\* a lookup of the phase factors with window_length >= 1, sample_rate >= 1
PhaseLookup ==
  /\ lookup # None
  /\ lookup.fn = "phase_factors"
  /\ lookup.key[1] >= 1
  /\ lookup.key[2] >= 1

\* C13: for every window_length >= 1 and sample_rate >= 1 the phase factors
\* have exactly window_length entries, entry 0 is 0, entry n is
\* (-2 pi n) / sample_rate as the code's f32 expression gives it, and every
\* entry is strictly below the one before it.
C13_PhaseFactorsStrictlyDecrease ==
  PhaseLookup =>
    LET window_length == lookup.key[1]
        sample_rate == lookup.key[2]
        phase_factors == lookup.result
    IN
    /\ Len(phase_factors) = window_length
    /\ phase_factors[1][2] = 0
    /\ \A n \in 0 .. window_length - 1 :
         phase_factors[n + 1] =
           <<"phase", UsizeAsF32(n), UsizeAsF32(sample_rate)>>
    /\ \A n \in 1 .. window_length - 1 :
         PhaseLess(phase_factors[n + 1], phase_factors[n])

\* what remains true of C13 for every window length: the entries never
\* increase
C13_PhaseFactorsNeverIncrease ==
  PhaseLookup =>
    /\ Len(lookup.result) = lookup.key[1]
    /\ lookup.result[1][2] = 0
    /\ \A n \in 1 .. lookup.key[1] - 1 :
         ~PhaseLess(lookup.result[n], lookup.result[n + 1])

\* C20: once a table is initialised no step modifies it: every later lookup,
\* hit or miss, leaves its keys and values as they are, and a miss computes
\* its value without inserting it.
C20_TablesNeverModified ==
  [][\A name \in DOMAIN tables :
       tables[name] # None => tables'[name] = tables[name]]_vars

\* a miss in the base-frequency table after the table was initialised, the
\* table holding its twelve initial keys
C20_Witness ==
  /\ lookup # None
  /\ lookup.fn = "base_freq_ratio"
  /\ ~lookup.hit
  /\ tables.base_freq_ratio = CALCULATED_BASE_FREQ_RATIOS
  /\ lookup.key \notin DOMAIN tables.base_freq_ratio

----------------------------------------------------------------------------
(* Claims about calculate_norm, checked under SpecNorm                     *)

\* the f32 0.5
OneHalf == <<"ratio", 1, 2>>

----------------------------------------------------------------------------
(* Claims about the engine and its concurrency, checked under Spec         *)

\* the CQTParams value p is consistent with the request it was built for
ParamsConsistent(p) ==
  /\ Len(p.hann_window) = p.window_length
  /\ Len(p.phase_factors) = p.window_length
  /\ IsPowerOfTwo(p.window_length)
  /\ p.window_length >= new_args.window_length
  /\ p.window_length < 2 * new_args.window_length

\* a step leaves the returned CQTParams and the engine that owns it as they are
ParamsKept ==
  /\ new_result # None => new_result' = new_result
  /\ pc = "ready" => cqt' = cqt

Accepted ==
  /\ call # None
  /\ \/ call.pc \in {"frames", "magnitude"}
     \/ call.pc = "return" /\ call.result.tag # "Err"

\* C16: in every accepted process call the padded signal has
\* signal_length + window_length - hop_size samples and, for every frame
\* index f in [0, num_frames), the slice [f * hop_size,
\* f * hop_size + window_length) ends inside it: no frame extraction is out
\* of bounds.
C16_FramesInsidePaddedSignal ==
  Accepted =>
    LET window_length == cqt.cqt_params.window_length IN
    /\ Len(call.signal_padded) =
         Len(call.signal) + window_length - call.hop_size
    /\ \A f \in 0 .. call.num_frames - 1 :
         f * call.hop_size + window_length <= Len(call.signal_padded)
    /\ call.result # Panic("slice")

\* a call of several frames has extracted them all, the last frame ending
\* with the last sample of the padded signal
C16_Witness ==
  /\ AtReturn
  /\ call.result.tag = "Ok"
  /\ call.num_frames >= 2
  /\ call.hop_size < cqt.cqt_params.window_length
  /\ (call.num_frames - 1) * call.hop_size + cqt.cqt_params.window_length
       = Len(call.signal_padded)

\* the stage changes of a process call: Validate, then Pad, then the frames
\* (windowed and transformed one by one), then Project, then Magnitude; a
\* call leaves Validate for its return only with an error
StageChanges ==
  {<<"validate", "pad">>, <<"validate", "return">>, <<"pad", "frames">>,
   <<"frames", "magnitude">>, <<"magnitude", "return">>}

\* every row of the frame matrix has been windowed and transformed once
AllFramesTransformed ==
  /\ call.todo = {}
  /\ \A i \in 1 .. call.num_frames : call.cqt_output.data[i].ffts = 1

\* a step of a process call respects the order of the stages
StageStep ==
  /\ (call = None /\ call' # None) => call'.pc = "validate"
  /\ (call # None /\ call' # None /\ call'.pc # call.pc) =>
       /\ <<call.pc, call'.pc>> \in StageChanges
       /\ call'.pc = "pad" =>
            ProcessValidation(Len(call.signal), call.hop_size,
                              cqt.cqt_params.window_length) = None
       /\ call'.pc = "magnitude" => AllFramesTransformed
       /\ (call.pc = "validate" /\ call'.pc = "return") =>
            /\ call'.result.tag = "Err"
            /\ call'.signal_padded = None
            /\ call'.cqt_output = None
            /\ call'.cqt_filtered = None
  /\ (call # None /\ call' # None /\ call'.pc = call.pc) =>
       call.pc = "frames"

\* C17: a process call goes through Validate, Pad, Frame+Window+Transform,
\* Project, Magnitude in this order: it pads only after validation
\* succeeded, projects only after the window and transform of every frame
\* have finished, and after a failed validation it returns without any
\* padding, transform or projection.
C17_StagesInOrder == [][StageStep]_vars

\* a call of several frames has gone through every stage
C17_Witness ==
  /\ AtReturn
  /\ call.result.tag = "Ok"
  /\ call.num_frames >= 2
  /\ AllFramesTransformed
  /\ pinned # None
  /\ pinned.result.tag = "Err"

\* a step of the filterbank loop that writes: it is the iteration of one bin
\* b not run yet, it changes row b alone, and what it writes is one forward
\* transform of the complex Hann window of center_freq(b)
FilterbankStep ==
  (pc = "filterbank" /\ filterbank' # filterbank) =>
    \E b \in fb_todo :
      /\ fb_todo' = fb_todo \ {b}
      /\ filterbank' = [filterbank EXCEPT
                          !.data[b + 1] = FilterbankRowValue(new_result.val, b)]
      /\ filterbank'.data[b + 1] =
           FftProcess(CreateComplexHannWindow(CenterFreq(new_result.val, b),
                                              new_result.val))

\* C19: in compute_cqt_filterbank each parallel iteration writes only the
\* row of its bin b, with a value that depends only on b and the parameters
\* (center_freq(b), the complex Hann window, one forward transform), and the
\* filterbank returned is the same under every order of the iterations.
C19_FilterbankOrderIndependent ==
  /\ [][FilterbankStep]_vars
  /\ []((fb_result # None /\ fb_result.tag = "Ok") =>
          fb_result.val = FilterbankInOrder(new_result.val))

\* a filterbank of several rows has been returned
C19_Witness ==
  /\ pc = "built"
  /\ fb_result.tag = "Ok"
  /\ fb_result.val.rows >= 2
  /\ fb_result.val.cols >= 2
  /\ fb_result.val.data[1] # fb_result.val.data[2]

----------------------------------------------------------------------------
(* Claims about the frame loop, checked under SpecFrames                   *)

\* the rows and the elements that differ between two frame matrices
ChangedRows(a, b) == {i \in 1 .. a.rows : a.data[i] # b.data[i]}
ChangedElems(a, b, i) ==
  {n \in 1 .. a.cols : a.data[i].elems[n] # b.data[i].elems[n]}

\* a step of the loop writes only the slot of its iteration: an
\* element-wise iteration of frame f only element n of row f, the transform
\* of frame f only row f
FrameLoopStep ==
  (pc = "frames" /\ frames' # frames) =>
    /\ \A slot \in frames.elem_todo \ frames'.elem_todo :
         /\ ChangedRows(frames.cqt_output, frames'.cqt_output) = {slot[1] + 1}
         /\ ChangedElems(frames.cqt_output, frames'.cqt_output, slot[1] + 1)
              = {slot[2]}
    /\ \A f \in frames.fft_todo \ frames'.fft_todo :
         ChangedRows(frames.cqt_output, frames'.cqt_output) = {f + 1}
    /\ frames'.signal_padded = frames.signal_padded
    /\ frames'.hann_window = frames.hann_window

\* the matrix the frames give when they run one after the other
FramesInOrder ==
  [i \in 1 .. frames.num_frames |->
    FrameRow(Buffer([n \in 1 .. frames.window_len |-> CZero]),
             frames.signal_padded, frames.hann_window, i - 1,
             frames.hop_size, frames.window_len).val]

\* C18: in the parallel frame loop the iteration of frame f writes only row
\* f (its element-wise iterations one element each), reading only the padded
\* signal and the Hann window; no slot is written by two iterations; and the
\* matrix after the loop is the same under every schedule of the frame
\* iterations and of the element-wise iterations inside them.
C18_FrameLoopScheduleIndependent ==
  /\ [][FrameLoopStep]_vars
  /\ [](\A slot \in DOMAIN frames.writes : frames.writes[slot] <= 1)
  /\ [](pc = "joined" => frames.cqt_output.data = FramesInOrder)

\* a loop of several overlapping frames of several elements has been joined
C18_Witness ==
  /\ pc = "joined"
  /\ frames.num_frames >= 2
  /\ frames.window_len >= 2
  /\ frames.hop_size < frames.window_len
  /\ \A slot \in DOMAIN frames.writes : frames.writes[slot] = 1

----------------------------------------------------------------------------
(* Claims about concurrent process calls, checked under SpecShared         *)

\* the result of a call that runs alone on the engine, its frames in
\* ascending order
RECURSIVE RunAlone(_, _)
RunAlone(c, engine) ==
  CASE c.pc = "validate" -> RunAlone(AfterValidate(c, engine), engine)
    [] c.pc = "pad" -> RunAlone(AfterPad(c, engine), engine)
    [] c.pc = "frames" /\ c.todo # {} ->
         RunAlone(AfterFrame(c, engine,
                             CHOOSE f \in c.todo : \A g \in c.todo : f <= g),
                  engine)
    [] c.pc = "frames" /\ c.todo = {} -> RunAlone(AfterProject(c, engine), engine)
    [] c.pc = "magnitude" -> RunAlone(AfterMagnitude(c), engine)
    [] c.pc = "return" -> c.result

\* the call of thread t has its result
ThreadAtReturn(t) == calls[t] # None /\ calls[t].pc = "return"

\* C11: when process calls run concurrently on one engine, under every
\* interleaving of their stages each call returns what the same call
\* returns when it runs alone on that engine, and the engine (parameters
\* and filterbank) stays as it was built.
C11_ConcurrentCallsAsAlone ==
  /\ cqt = EngineOf(new_args)
  /\ \A t \in Threads :
       ThreadAtReturn(t) =>
         calls[t].result =
           RunAlone(NewCall(calls[t].signal, calls[t].hop_size),
                    EngineOf(new_args))

\* one call has returned its matrix while another call, with another
\* signal, is in the middle of its frame loop
C11_Witness ==
  \E t \in Threads :
    \E u \in Threads :
      /\ ThreadAtReturn(t)
      /\ calls[t].result.tag = "Ok"
      /\ calls[t].result.val.rows >= 2
      /\ calls[u] # None
      /\ calls[u].pc = "frames"
      /\ calls[u].signal # calls[t].signal
      /\ calls[u].todo # {}
      /\ calls[u].todo # 0 .. calls[u].num_frames - 1

----------------------------------------------------------------------------
(* The keys of the three tables, checked under SpecLookup                  *)

\* the keys the three tables are said to hold
StatedBinKeys == 1 .. 12
StatedPhaseKeys == {256, 512, 1024, 2048, 4096} \X {16000, 22050, 44100, 48000}

\* the lookup of the current state went to the table of the name
LookupIn(name) == lookup # None /\ lookup.fn = name

\* C21: the Q-factor table and the base-frequency-ratio table each hold
\* exactly the keys 1..12, and the phase-factor table exactly the twenty
\* pairs of a window length in {256, 512, 1024, 2048, 4096} and a sample
\* rate in {16000, 22050, 44100, 48000}: an initialised table has these
\* keys, and a lookup hits exactly on them.
C21_TablesHoldStatedKeys ==
  /\ tables.q_factor # None => DOMAIN tables.q_factor = StatedBinKeys
  /\ tables.base_freq_ratio # None =>
       DOMAIN tables.base_freq_ratio = StatedBinKeys
  /\ tables.phase_factors # None =>
       DOMAIN tables.phase_factors = StatedPhaseKeys
  /\ LookupIn("q_factor") => (lookup.hit <=> lookup.key \in StatedBinKeys)
  /\ LookupIn("base_freq_ratio") =>
       (lookup.hit <=> lookup.key \in StatedBinKeys)
  /\ LookupIn("phase_factors") =>
       (lookup.hit <=> lookup.key \in StatedPhaseKeys)

\* what the tables do hold: the base-frequency-ratio table has the keys
\* 0..11, the other two the keys stated
C21_TablesHoldInitialKeys ==
  /\ tables.q_factor # None => DOMAIN tables.q_factor = 1 .. 12
  /\ tables.base_freq_ratio # None =>
       DOMAIN tables.base_freq_ratio = 0 .. 11
  /\ tables.phase_factors # None =>
       DOMAIN tables.phase_factors = StatedPhaseKeys
  /\ LookupIn("q_factor") => (lookup.hit <=> lookup.key \in 1 .. 12)
  /\ LookupIn("base_freq_ratio") => (lookup.hit <=> lookup.key \in 0 .. 11)
  /\ LookupIn("phase_factors") =>
       (lookup.hit <=> lookup.key \in StatedPhaseKeys)

\* the base-frequency-ratio lookup of 12 bins per octave is a miss
C21_TwelveBinsMiss ==
  /\ LookupIn("base_freq_ratio")
  /\ lookup.key = 12
  /\ ~lookup.hit
  /\ tables.base_freq_ratio # None

----------------------------------------------------------------------------
(* pad_input_signal as process calls it, checked under Spec                *)

\* what pad_input_signal returns for the signal and the hop size of the
\* call c and the window length of the engine
PadOf(c) == PadInputSignal(c.signal, cqt.cqt_params.window_length, c.hop_size)

\* the hop size of the call c fails the hop size check
HopRejected(c) ==
  c.hop_size = 0 \/ c.hop_size > cqt.cqt_params.window_length

\* C22: pad_input_signal checks the hop size before emptiness (a hop size
\* of 0 or above the window length gives InvalidHopSize even for an empty
\* signal, otherwise an empty signal gives EmptyInputSignal), process
\* checks them in the opposite order, and as process has rejected both
\* against the same window length before it pads, its pad_input_signal
\* call returns Ok: the expect never aborts.
C22_PadNeverFailsInsideProcess ==
  call # None =>
    /\ HopRejected(call) => PadOf(call) = Err("InvalidHopSize")
    /\ (~HopRejected(call) /\ Len(call.signal) = 0) =>
         PadOf(call) = Err("EmptyInputSignal")
    /\ (call.pc = "return" /\ Len(call.signal) = 0) =>
         call.result = Err("EmptyInputSignal")
    /\ (call.pc = "return" /\ Len(call.signal) # 0 /\ HopRejected(call)) =>
         call.result = Err("InvalidHopSize")
    /\ call.pc = "pad" => PadOf(call).tag = "Ok"
    /\ call.pc \in {"frames", "magnitude"} =>
         /\ PadOf(call).tag = "Ok"
         /\ call.signal_padded = PadOf(call).val
    /\ call.result # Panic("Error padding input signal")

\* a call is past its padding, with a hop size equal to the window length,
\* after a call with an empty signal and hop size 0 returned
\* EmptyInputSignal where pad_input_signal gives InvalidHopSize
C22_Witness ==
  /\ call # None
  /\ call.pc = "frames"
  /\ call.hop_size = cqt.cqt_params.window_length
  /\ Len(call.signal_padded) = Len(call.signal)
  /\ pinned # None
  /\ Len(pinned.signal) = 0
  /\ pinned.hop_size = 0
  /\ pinned.result = Err("EmptyInputSignal")
  /\ PadOf(pinned) = Err("InvalidHopSize")

====
